---- MODULE Spec2Model ----
(***************************************************************************)
(* State-machine model of the SvelteSocket class: a reconnecting WebSocket *)
(* client with connection-state tracking and bounded message histories.    *)
(*                                                                         *)
(* The client's fields are the variables; every public method, every       *)
(* internal event handler registered by createSocket and the reconnect     *)
(* timer callback is one action.  The transports (WebSocket objects) are   *)
(* the environment: each has a readyState that follows the WebSocket API   *)
(* (CONNECTING -> OPEN -> CLOSING -> CLOSED, close() asynchronous).         *)
(***************************************************************************)
EXTENDS Integers, Sequences, FiniteSets, TLC

(* ------------------------------ bounds -------------------------------- *)
MaxAttemptsBound == 2      \* reconnectOptions.maxAttempts is 0, 1 or MaxAttemptsBound
MaxDelay == 1              \* reconnectOptions.delay is 0 or MaxDelay
MaxCap == 1                \* maxMessageHistory is 0 (unbounded) or MaxCap
MaxOpens == 1              \* open events the environment delivers in one run
MaxTraffic == 2            \* sends, message events, error events and listeners in one run

(* Every createSocket but the first is a fired reconnect timer, and at    *)
(* most maxAttempts timers are scheduled between two open events.         *)
MaxTransports == 1 + MaxAttemptsBound * (MaxOpens + 1)

(* --------------------------- program constants ------------------------ *)
CONNECTING == 0
OPEN == 1
CLOSING == 2
CLOSED == 3

ReadyStates == {CONNECTING, OPEN, CLOSING, CLOSED}

(* the event types of a transport, the callbacks callers register, and  *)
(* the registrations they make: one callback for every event type and a *)
(* second one for close events                                           *)
Kinds == {"open", "close", "error", "message"}
Callbacks == {"cb1", "cb2"}
Registrations == (Kinds \X {"cb1"}) \cup {<<"close", "cb2">>}

Messages == {"m1", "m2"}

(* urls as character sequences, so that startsWith is computed *)
WsUrl == <<"w", "s", ":", "/", "/", "h">>
WssUrl == <<"w", "s", "s", ":", "/", "/", "h">>
HttpUrl == <<"h", "t", "t", "p", ":", "/", "/", "h">>
HttpsUrl == <<"h", "t", "t", "p", "s", ":", "/", "/", "h">>
NoSchemeUrl == <<"h", ":", "1">>
EmptyUrl == <<>>
WsNoSlashUrl == <<"w", "s", ":", "h">>

Urls == {WsUrl, WssUrl, HttpUrl, HttpsUrl, NoSchemeUrl, EmptyUrl, WsNoSlashUrl}

WsPrefix == <<"w", "s", ":", "/", "/">>
WssPrefix == <<"w", "s", "s", ":", "/", "/">>

(* reconnectOptions: absent, or {enabled, delay, maxAttempts} *)
NoReconnect == [present |-> FALSE, enabled |-> FALSE, delay |-> 0, maxAttempts |-> 0]

ReconnectChoices ==
    {NoReconnect} \cup
    [present : {TRUE}, enabled : {FALSE}, delay : {MaxDelay}, maxAttempts : {MaxAttemptsBound}] \cup
    [present : {TRUE}, enabled : {TRUE}, delay : {0, MaxDelay}, maxAttempts : {0, 1}] \cup
    [present : {TRUE}, enabled : {TRUE}, delay : {MaxDelay}, maxAttempts : {MaxAttemptsBound}]

(* a policy of one immediate reconnect *)
ReconnectOnce == [present |-> TRUE, enabled |-> TRUE, delay |-> 0, maxAttempts |-> 1]

(* The url matters to the validation only: every url is tried without   *)
(* reconnectOptions and with maxMessageHistory 0; the ws:// url is tried *)
(* with every reconnect policy and an unbounded history, and with a      *)
(* bounded history without reconnection and with one reconnect.          *)
ConstructorArgs ==
    (Urls \X {NoReconnect} \X {0})
    \cup ({WsUrl} \X ReconnectChoices \X {0})
    \cup ({WsUrl} \X {NoReconnect, ReconnectOnce} \X {MaxCap})

VARIABLES
    phase,               \* "new": not constructed, "live": constructed, "threw": constructor threw
    url,                 \* this.url
    socket,              \* this.socket: 0 = undefined, else index of a transport
    connectionStatus,    \* this.connectionStatus
    sentMessages,        \* this.sentMessages, index 1 = JS index 0
    receivedMessages,    \* this.receivedMessages, index 1 = JS index 0
    reconnectOptions,    \* this.reconnectOptions
    maxMessageHistory,   \* this.maxMessageHistory
    reconnectAttempts,   \* this.reconnectAttempts
    reconnectTimeoutId,  \* this.reconnectTimeoutId: 0 = null, else index of a timer
    intentionalClose,    \* this.intentionalClose
    readyState,          \* readyState of every transport created so far, in creation order
    wire,                \* payloads handed to transport.send, as <<transport, payload>>
    timers,              \* every setTimeout so far: [st, rem], st in pending/fired/cleared
    now,                 \* Date.now(), in delay units
    calls,               \* how often each constructor callback has been invoked
    removed,             \* removeSocket has been called
    scheduled,           \* reconnect timers set since the last open event
    listeners,           \* per transport: the listeners added through the client
    sendsSinceClear,     \* successful sends since sentMessages was last emptied
    arrivalsSinceClear,  \* message events since receivedMessages was last emptied
    heard,               \* the callers' listeners invoked in the step just taken, in order
    onCloseSaw,          \* connectionStatus as the last onClose callback found it, -1 before
    context,             \* what SocketProvider stored with setSocket, NoContext before
    trackedListeners,    \* this.listeners of the listener-tracking version: event -> callbacks
    stranded             \* whether the transport last replaced had listeners registered

vars == <<phase, url, socket, connectionStatus, sentMessages, receivedMessages,
          reconnectOptions, maxMessageHistory, reconnectAttempts, reconnectTimeoutId,
          intentionalClose, readyState, wire, timers, now, calls, removed, scheduled,
          listeners, sendsSinceClear, arrivalsSinceClear, heard, onCloseSaw, context,
          trackedListeners, stranded>>

config == <<url, reconnectOptions, maxMessageHistory>>
histories == <<sentMessages, receivedMessages>>
since == <<sendsSinceClear, arrivalsSinceClear>>

(* the context key holds nothing, or the SvelteSocket instance *)
NoContext == "none"
TheSocket == "svelteSocket"

(* an empty Map *)
EmptyMap == [event \in {} |-> {}]

(* ----------------------------- helpers -------------------------------- *)

StartsWith(s, p) == Len(s) >= Len(p) /\ SubSeq(s, 1, Len(p)) = p

(* a validation that only looks for the ws: or wss: scheme name *)
ValidUrl_schemeOnly(u) ==
    StartsWith(u, <<"w", "s", ":">>) \/ StartsWith(u, <<"w", "s", "s", ":">>)

ValidUrl(u) == StartsWith(u, WsPrefix) \/ StartsWith(u, WssPrefix)

getReadyStateString(cs) ==
    CASE cs = CONNECTING -> "CONNECTING"
      [] cs = OPEN -> "OPEN"
      [] cs = CLOSING -> "CLOSING"
      [] cs = CLOSED -> "CLOSED"
      [] OTHER -> "UNKNOWN"

(* WebSocket.close(): a no-op on a CLOSING or CLOSED transport, otherwise the *)
(* transport starts closing and its close event is delivered later.          *)
TransportClose(rs) == IF rs \in {CONNECTING, OPEN} THEN CLOSING ELSE rs

(* clearTimeout(id) *)
ClearTimeout(ts, id) ==
    IF id # 0 /\ ts[id].st = "pending" THEN [ts EXCEPT ![id].st = "cleared"] ELSE ts

(* unshift(entry) without the trim *)
Record_noTrim(buffer, entry, cap) == <<entry>> \o buffer

(* unshift(entry) followed by slice(-cap): the trim drops the newest *)
Record_keepOldest(buffer, entry, cap) ==
    LET grown == <<entry>> \o buffer
    IN IF cap > 0 /\ Len(grown) > cap
         THEN SubSeq(grown, Len(grown) - cap + 1, Len(grown))
         ELSE grown

(* the trim without the test for the capacity 0 *)
Record_trimAlways(buffer, entry, cap) ==
    LET grown == <<entry>> \o buffer
    IN IF Len(grown) > cap THEN SubSeq(grown, 1, cap) ELSE grown

(* push(entry) in place of unshift(entry) *)
Record_push(buffer, entry, cap) ==
    LET grown == buffer \o <<entry>>
    IN IF cap > 0 /\ Len(grown) > cap THEN SubSeq(grown, 1, cap) ELSE grown

(* unshift(entry) followed by the trim to maxMessageHistory *)
Record(buffer, entry, cap) ==
    LET grown == <<entry>> \o buffer
    IN IF cap > 0 /\ Len(grown) > cap THEN SubSeq(grown, 1, cap) ELSE grown

NoError == [kind |-> "none", named |-> "none"]

(* a transport's listeners: for every event type the callbacks, in the   *)
(* order of their registration                                           *)
NoListeners == [event \in Kinds |-> <<>>]

(* number of listeners on the transport the client holds *)
Registered ==
    IF socket = 0
      THEN 0
      ELSE Len(listeners[socket]["open"]) + Len(listeners[socket]["close"])
           + Len(listeners[socket]["error"]) + Len(listeners[socket]["message"])

(* successful sends, message events and error events so far, and the      *)
(* listeners now registered                                               *)
Traffic == Len(wire) + calls.onMessage + calls.onError + Registered

(* a registration that puts the new listener in front *)
AddListener_front(ls, event, callback) ==
    IF \E i \in 1..Len(ls[event]) : ls[event][i] = callback
      THEN ls
      ELSE [ls EXCEPT ![event] = <<callback>> \o @]

(* EventTarget.addEventListener: a listener already in the list is not    *)
(* added again                                                            *)
AddListener(ls, event, callback) ==
    IF \E i \in 1..Len(ls[event]) : ls[event][i] = callback
      THEN ls
      ELSE [ls EXCEPT ![event] = Append(@, callback)]

(* a removal that drops every listener of the event type *)
RemoveListener_allOfKind(ls, event, callback) == [ls EXCEPT ![event] = <<>>]

(* EventTarget.removeEventListener *)
RemoveListener(ls, event, callback) ==
    [ls EXCEPT ![event] = SelectSeq(@, LAMBDA c : c # callback)]

(* the callers' listeners an event of type event at transport t invokes: *)
(* those registered on t for that type, in registration order            *)
Dispatch(t, event) == listeners[t][event]

(* the callbacks transport t invokes for an event of type event *)
Listening(t, event) == {listeners[t][event][i] : i \in 1..Len(listeners[t][event])}

PendingTimers == {i \in 1..Len(timers) : timers[i].st = "pending"}

(* ------------------------------ initial state -------------------------- *)
(* Field initialisers of the class, before the constructor body runs.     *)
Init ==
    /\ phase = "new"
    /\ url = <<>>
    /\ socket = 0
    /\ connectionStatus = CLOSED
    /\ sentMessages = <<>>
    /\ receivedMessages = <<>>
    /\ reconnectOptions = NoReconnect
    /\ maxMessageHistory = 0
    /\ reconnectAttempts = 0
    /\ reconnectTimeoutId = 0
    /\ intentionalClose = FALSE
    /\ readyState = <<>>
    /\ wire = <<>>
    /\ timers = <<>>
    /\ now = 0
    /\ calls = [onOpen |-> 0, onClose |-> 0, onError |-> 0, onMessage |-> 0]
    /\ removed = FALSE
    /\ scheduled = 0
    /\ listeners = <<>>
    /\ sendsSinceClear = 0
    /\ arrivalsSinceClear = 0
    /\ heard = <<>>
    /\ onCloseSaw = -1
    /\ context = NoContext
    /\ trackedListeners = EmptyMap
    /\ stranded = FALSE

(* createSocket that leaves connectionStatus to the event handlers *)
createSocket_noStatus ==
    /\ intentionalClose' = FALSE
    /\ readyState' =
         Append(IF socket # 0
                  THEN [readyState EXCEPT ![socket] = TransportClose(@)]
                  ELSE readyState,
                CONNECTING)
    /\ UNCHANGED connectionStatus
    /\ socket' = Len(readyState) + 1
    /\ listeners' =
         Append(IF socket # 0 /\ readyState[socket] = CLOSED
                  THEN [listeners EXCEPT ![socket] = NoListeners]
                  ELSE listeners,
                NoListeners)

(* createSocket that moves the callers' listeners to the new transport *)
createSocket_rebinds ==
    /\ intentionalClose' = FALSE
    /\ readyState' =
         Append(IF socket # 0
                  THEN [readyState EXCEPT ![socket] = TransportClose(@)]
                  ELSE readyState,
                CONNECTING)
    /\ connectionStatus' = CONNECTING
    /\ socket' = Len(readyState) + 1
    /\ listeners' =
         Append(IF socket # 0 /\ readyState[socket] = CLOSED
                  THEN [listeners EXCEPT ![socket] = NoListeners]
                  ELSE listeners,
                IF socket # 0 THEN listeners[socket] ELSE NoListeners)

(* ------------------------------ createSocket --------------------------- *)
(* Resets intentionalClose, closes the transport it still holds, sets the *)
(* status to CONNECTING and creates the next transport.                   *)
createSocket ==
    /\ intentionalClose' = FALSE
    /\ readyState' =
         Append(IF socket # 0
                  THEN [readyState EXCEPT ![socket] = TransportClose(@)]
                  ELSE readyState,
                CONNECTING)
    /\ connectionStatus' = CONNECTING
    /\ socket' = Len(readyState) + 1
    /\ listeners' =
         Append(IF socket # 0 /\ readyState[socket] = CLOSED
                  THEN [listeners EXCEPT ![socket] = NoListeners]
                  ELSE listeners,
                NoListeners)

(* ------------------------------ constructor ---------------------------- *)
(* Throws on a url without the ws:// or wss:// scheme before it assigns   *)
(* anything; otherwise stores the options and calls createSocket.         *)
Constructor(u, ro, mh) ==
    /\ phase = "new"
    /\ IF ~ValidUrl(u)
         THEN /\ phase' = "threw"
              /\ UNCHANGED <<config, socket, connectionStatus, intentionalClose, readyState,
                             listeners>>
         ELSE /\ phase' = "live"
              /\ url' = u
              /\ reconnectOptions' = ro
              /\ maxMessageHistory' = mh
              /\ createSocket
    /\ heard' = <<>>
    /\ UNCHANGED <<trackedListeners, onCloseSaw, stranded>>
    /\ UNCHANGED <<histories, reconnectAttempts, reconnectTimeoutId, wire, timers, now,
                   calls, removed, scheduled, since>>

(* addEventListener that wants an open connection *)
addEventListenerError_needsOpen ==
    IF socket = 0 \/ connectionStatus # OPEN
      THEN [kind |-> "NotConnected", named |-> getReadyStateString(connectionStatus)]
    ELSE NoError

(* removeEventListener that skips the transport when there is none *)
removeEventListenerError_silent == NoError

(* ------------------- addEventListener / removeEventListener ------------ *)
(* The error addEventListener throws in the current state, NoError if     *)
(* none.                                                                  *)
addEventListenerError ==
    IF socket = 0
      THEN [kind |-> "NotConnected", named |-> getReadyStateString(connectionStatus)]
    ELSE NoError

addEventListener(event, callback) ==
    /\ phase = "live"
    /\ IF addEventListenerError # NoError
         THEN UNCHANGED listeners
         ELSE /\ Traffic < MaxTraffic
              /\ listeners' = [listeners EXCEPT ![socket] = AddListener(@, event, callback)]
    /\ heard' = <<>>
    /\ UNCHANGED <<context, trackedListeners, onCloseSaw, stranded>>
    /\ UNCHANGED <<phase, config, socket, connectionStatus, histories, reconnectAttempts,
                   reconnectTimeoutId, intentionalClose, readyState, wire, timers, now,
                   calls, removed, scheduled, since>>

(* The error removeEventListener throws in the current state, NoError if  *)
(* none.                                                                  *)
removeEventListenerError ==
    IF socket = 0
      THEN [kind |-> "NotConnected", named |-> getReadyStateString(connectionStatus)]
    ELSE NoError

removeEventListener(event, callback) ==
    /\ phase = "live"
    /\ IF removeEventListenerError # NoError
         THEN UNCHANGED listeners
         ELSE listeners' = [listeners EXCEPT ![socket] = RemoveListener(@, event, callback)]
    /\ heard' = <<>>
    /\ UNCHANGED <<context, trackedListeners, onCloseSaw, stranded>>
    /\ UNCHANGED <<phase, config, socket, connectionStatus, histories, reconnectAttempts,
                   reconnectTimeoutId, intentionalClose, readyState, wire, timers, now,
                   calls, removed, scheduled, since>>

(* sendMessage that tests connectionStatus together with the handle *)
sendMessageError_statusFirst ==
    IF socket = 0 \/ connectionStatus # OPEN
      THEN [kind |-> "NotConnected", named |-> getReadyStateString(connectionStatus)]
    ELSE IF readyState[socket] # OPEN
      THEN [kind |-> "InvalidState", named |-> getReadyStateString(connectionStatus)]
    ELSE NoError

(* sendMessage with one test for the handle and its readyState *)
sendMessageError_oneTest ==
    IF socket = 0 \/ readyState[socket] # OPEN
      THEN [kind |-> "InvalidState", named |-> getReadyStateString(connectionStatus)]
    ELSE NoError

(* sendMessage without the readyState test *)
sendMessageError_noStateCheck ==
    IF socket = 0
      THEN [kind |-> "NotConnected", named |-> getReadyStateString(connectionStatus)]
    ELSE NoError

(* sendMessage that records the payload before it tests the connection *)
sendMessage_recordFirst(m) ==
    /\ phase = "live"
    /\ sentMessages' = Record(sentMessages, [message |-> m, timestamp |-> now],
                              maxMessageHistory)
    /\ IF socket = 0 \/ readyState[socket] # OPEN
         THEN UNCHANGED <<wire, sendsSinceClear>>
         ELSE /\ Traffic < MaxTraffic
              /\ wire' = Append(wire, <<socket, m>>)
              /\ sendsSinceClear' = sendsSinceClear + 1
    /\ heard' = <<>>
    /\ UNCHANGED <<context, trackedListeners, onCloseSaw, stranded>>
    /\ UNCHANGED <<phase, config, socket, connectionStatus, receivedMessages,
                   reconnectAttempts, reconnectTimeoutId, intentionalClose, readyState,
                   timers, now, calls, removed, scheduled, listeners, arrivalsSinceClear>>

(* ------------------------------ sendMessage ---------------------------- *)
(* The error sendMessage throws in the current state, NoError if none.    *)
(* The test is on the transport's readyState, the state named in the      *)
(* message is connectionStatus.                                           *)
sendMessageError ==
    IF socket = 0
      THEN [kind |-> "NotConnected", named |-> getReadyStateString(connectionStatus)]
    ELSE IF readyState[socket] # OPEN
      THEN [kind |-> "InvalidState", named |-> getReadyStateString(connectionStatus)]
    ELSE NoError

sendMessage(m) ==
    /\ phase = "live"
    /\ IF sendMessageError # NoError
         THEN UNCHANGED <<sentMessages, wire, sendsSinceClear>>
         ELSE /\ Traffic < MaxTraffic
              /\ wire' = Append(wire, <<socket, m>>)
              /\ sentMessages' = Record(sentMessages, [message |-> m, timestamp |-> now],
                                        maxMessageHistory)
              /\ sendsSinceClear' = sendsSinceClear + 1
    /\ heard' = <<>>
    /\ UNCHANGED <<context, trackedListeners, onCloseSaw, stranded>>
    /\ UNCHANGED <<phase, config, socket, connectionStatus, receivedMessages,
                   reconnectAttempts, reconnectTimeoutId, intentionalClose, readyState,
                   timers, now, calls, removed, scheduled, listeners, arrivalsSinceClear>>

(* ------------------------ clearSentMessages / clearReceivedMessages ---- *)
(* clearSentMessages that empties both histories *)
clearSentMessages_both ==
    /\ phase = "live"
    /\ sentMessages' = <<>>
    /\ receivedMessages' = <<>>
    /\ sendsSinceClear' = 0
    /\ arrivalsSinceClear' = 0
    /\ heard' = <<>>
    /\ UNCHANGED <<context, trackedListeners, onCloseSaw, stranded>>
    /\ UNCHANGED <<phase, config, socket, connectionStatus,
                   reconnectAttempts, reconnectTimeoutId, intentionalClose, readyState,
                   wire, timers, now, calls, removed, scheduled, listeners>>

clearSentMessages ==
    /\ phase = "live"
    /\ sentMessages' = <<>>
    /\ sendsSinceClear' = 0
    /\ heard' = <<>>
    /\ UNCHANGED <<context, trackedListeners, onCloseSaw, stranded>>
    /\ UNCHANGED <<phase, config, socket, connectionStatus, receivedMessages,
                   reconnectAttempts, reconnectTimeoutId, intentionalClose, readyState,
                   wire, timers, now, calls, removed, scheduled, listeners,
                   arrivalsSinceClear>>

clearReceivedMessages ==
    /\ phase = "live"
    /\ receivedMessages' = <<>>
    /\ arrivalsSinceClear' = 0
    /\ heard' = <<>>
    /\ UNCHANGED <<context, trackedListeners, onCloseSaw, stranded>>
    /\ UNCHANGED <<phase, config, socket, connectionStatus, sentMessages,
                   reconnectAttempts, reconnectTimeoutId, intentionalClose, readyState,
                   wire, timers, now, calls, removed, scheduled, listeners,
                   sendsSinceClear>>

(* attemptReconnect with the budget test off by one (> for >=) *)
attemptReconnect_offByOne ==
    IF intentionalClose
      THEN UNCHANGED <<reconnectAttempts, timers, reconnectTimeoutId, scheduled>>
    ELSE IF ~reconnectOptions.enabled \/ reconnectAttempts > reconnectOptions.maxAttempts
      THEN UNCHANGED <<reconnectAttempts, timers, reconnectTimeoutId, scheduled>>
    ELSE /\ reconnectAttempts' = reconnectAttempts + 1
         /\ scheduled' = scheduled + 1
         /\ timers' = Append(timers, [st |-> "pending", rem |-> reconnectOptions.delay])
         /\ reconnectTimeoutId' = Len(timers) + 1

(* attemptReconnect that never looks at the enabled flag *)
attemptReconnect_ignoreEnabled ==
    IF intentionalClose
      THEN UNCHANGED <<reconnectAttempts, timers, reconnectTimeoutId, scheduled>>
    ELSE IF reconnectAttempts >= reconnectOptions.maxAttempts
      THEN UNCHANGED <<reconnectAttempts, timers, reconnectTimeoutId, scheduled>>
    ELSE /\ reconnectAttempts' = reconnectAttempts + 1
         /\ scheduled' = scheduled + 1
         /\ timers' = Append(timers, [st |-> "pending", rem |-> reconnectOptions.delay])
         /\ reconnectTimeoutId' = Len(timers) + 1

(* attemptReconnect that never looks at maxAttempts *)
attemptReconnect_noBudget ==
    IF intentionalClose
      THEN UNCHANGED <<reconnectAttempts, timers, reconnectTimeoutId, scheduled>>
    ELSE IF ~reconnectOptions.enabled
      THEN UNCHANGED <<reconnectAttempts, timers, reconnectTimeoutId, scheduled>>
    ELSE /\ reconnectAttempts' = reconnectAttempts + 1
         /\ scheduled' = scheduled + 1
         /\ timers' = Append(timers, [st |-> "pending", rem |-> reconnectOptions.delay])
         /\ reconnectTimeoutId' = Len(timers) + 1

(* attemptReconnect that counts the attempt and forgets the timer *)
attemptReconnect_noTimer ==
    IF intentionalClose
      THEN UNCHANGED <<reconnectAttempts, timers, reconnectTimeoutId, scheduled>>
    ELSE IF ~reconnectOptions.enabled \/ reconnectAttempts >= reconnectOptions.maxAttempts
      THEN UNCHANGED <<reconnectAttempts, timers, reconnectTimeoutId, scheduled>>
    ELSE /\ reconnectAttempts' = reconnectAttempts + 1
         /\ UNCHANGED <<timers, reconnectTimeoutId, scheduled>>

(* ------------------------------ attemptReconnect ----------------------- *)
(* Returns early on an intentional close, on a disabled policy and on an  *)
(* exhausted budget; otherwise counts the attempt and sets the timer.     *)
attemptReconnect ==
    IF intentionalClose
      THEN UNCHANGED <<reconnectAttempts, timers, reconnectTimeoutId, scheduled>>
    ELSE IF ~reconnectOptions.enabled \/ reconnectAttempts >= reconnectOptions.maxAttempts
      THEN UNCHANGED <<reconnectAttempts, timers, reconnectTimeoutId, scheduled>>
    ELSE /\ reconnectAttempts' = reconnectAttempts + 1
         /\ scheduled' = scheduled + 1
         /\ timers' = Append(timers, [st |-> "pending", rem |-> reconnectOptions.delay])
         /\ reconnectTimeoutId' = Len(timers) + 1

(* --------------------- handlers registered by createSocket ------------- *)
(* Each handler is a closure registered on transport t; it runs whenever  *)
(* t delivers the event, whether or not t is still this.socket.           *)

(* open handler that leaves reconnectAttempts alone *)
OpenEvent_noReset(t) ==
    /\ phase = "live"
    /\ heard' = Dispatch(t, "open")
    /\ UNCHANGED <<context, trackedListeners, onCloseSaw, stranded>>
    /\ readyState[t] = CONNECTING
    /\ calls.onOpen < MaxOpens
    /\ readyState' = [readyState EXCEPT ![t] = OPEN]
    /\ connectionStatus' = OPEN
    /\ timers' = ClearTimeout(timers, reconnectTimeoutId)
    /\ calls' = [calls EXCEPT !.onOpen = @ + 1]
    /\ scheduled' = 0
    /\ UNCHANGED <<phase, config, socket, histories, reconnectTimeoutId, intentionalClose,
                   wire, now, removed, reconnectAttempts, listeners, since>>

(* transport t connects: readyState OPEN, open event *)
OpenEvent(t) ==
    /\ phase = "live"
    /\ heard' = Dispatch(t, "open")
    /\ UNCHANGED <<context, trackedListeners, onCloseSaw, stranded>>
    /\ readyState[t] = CONNECTING
    /\ calls.onOpen < MaxOpens
    /\ readyState' = [readyState EXCEPT ![t] = OPEN]
    /\ connectionStatus' = OPEN
    /\ reconnectAttempts' = 0
    /\ timers' = ClearTimeout(timers, reconnectTimeoutId)
    /\ calls' = [calls EXCEPT !.onOpen = @ + 1]
    /\ scheduled' = 0
    /\ UNCHANGED <<phase, config, socket, histories, reconnectTimeoutId, intentionalClose,
                   wire, now, removed, listeners, since>>

(* a close handler that leaves connectionStatus alone *)
CloseEvent_noStatus(t) ==
    /\ phase = "live"
    /\ heard' = Dispatch(t, "close")
    /\ UNCHANGED <<context, trackedListeners, stranded>>
    /\ readyState[t] # CLOSED
    /\ readyState' = [readyState EXCEPT ![t] = CLOSED]
    /\ onCloseSaw' = connectionStatus
    /\ calls' = [calls EXCEPT !.onClose = @ + 1]
    /\ attemptReconnect
    /\ listeners' = IF t # socket THEN [listeners EXCEPT ![t] = NoListeners] ELSE listeners
    /\ UNCHANGED <<phase, config, socket, histories, intentionalClose, wire, now, removed,
                   since, connectionStatus>>

(* a close handler that invokes onClose before it sets the status *)
CloseEvent_callbackFirst(t) ==
    /\ phase = "live"
    /\ heard' = Dispatch(t, "close")
    /\ UNCHANGED <<context, trackedListeners, stranded>>
    /\ readyState[t] # CLOSED
    /\ readyState' = [readyState EXCEPT ![t] = CLOSED]
    /\ onCloseSaw' = connectionStatus
    /\ connectionStatus' = CLOSED
    /\ calls' = [calls EXCEPT !.onClose = @ + 1]
    /\ attemptReconnect
    /\ listeners' = IF t # socket THEN [listeners EXCEPT ![t] = NoListeners] ELSE listeners
    /\ UNCHANGED <<phase, config, socket, histories, intentionalClose, wire, now, removed,
                   since>>

(* transport t is closed: readyState CLOSED, close event.  The handler   *)
(* sets the status, invokes onClose (which finds the status it set) and  *)
(* calls attemptReconnect.                                               *)
CloseEvent(t) ==
    /\ phase = "live"
    /\ heard' = Dispatch(t, "close")
    /\ UNCHANGED <<context, trackedListeners, stranded>>
    /\ readyState[t] # CLOSED
    /\ readyState' = [readyState EXCEPT ![t] = CLOSED]
    /\ connectionStatus' = CLOSED
    /\ onCloseSaw' = connectionStatus'
    /\ calls' = [calls EXCEPT !.onClose = @ + 1]
    /\ attemptReconnect
    /\ listeners' = IF t # socket THEN [listeners EXCEPT ![t] = NoListeners] ELSE listeners
    /\ UNCHANGED <<phase, config, socket, histories, intentionalClose, wire, now, removed,
                   since>>

(* an error handler that treats the error as a lost connection *)
ErrorEvent_reconnects(t) ==
    /\ phase = "live"
    /\ heard' = Dispatch(t, "error")
    /\ UNCHANGED <<context, trackedListeners, onCloseSaw, stranded>>
    /\ readyState[t] # CLOSED
    /\ Traffic < MaxTraffic
    /\ calls' = [calls EXCEPT !.onError = @ + 1]
    /\ attemptReconnect
    /\ UNCHANGED <<phase, config, socket, connectionStatus, histories, intentionalClose,
                   readyState, wire, now, removed, listeners, since>>

(* transport t reports an error *)
ErrorEvent(t) ==
    /\ phase = "live"
    /\ heard' = Dispatch(t, "error")
    /\ UNCHANGED <<context, trackedListeners, onCloseSaw, stranded>>
    /\ readyState[t] # CLOSED
    /\ Traffic < MaxTraffic
    /\ calls' = [calls EXCEPT !.onError = @ + 1]
    /\ UNCHANGED <<phase, config, socket, connectionStatus, histories, reconnectAttempts,
                   reconnectTimeoutId, intentionalClose, readyState, wire, timers, now,
                   removed, scheduled, listeners, since>>

(* a message handler that callers' message listeners replace *)
MessageEvent_replaced(t) ==
    /\ phase = "live"
    /\ heard' = Dispatch(t, "message")
    /\ UNCHANGED <<context, trackedListeners, onCloseSaw, stranded>>
    /\ readyState[t] = OPEN
    /\ Traffic < MaxTraffic
    /\ IF listeners[t]["message"] = <<>>
         THEN /\ receivedMessages' = Record(receivedMessages,
                                            [message |-> calls.onMessage + 1],
                                            maxMessageHistory)
              /\ arrivalsSinceClear' = arrivalsSinceClear + 1
         ELSE UNCHANGED <<receivedMessages, arrivalsSinceClear>>
    /\ calls' = [calls EXCEPT !.onMessage = @ + 1]
    /\ UNCHANGED <<phase, config, socket, connectionStatus, sentMessages, reconnectAttempts,
                   reconnectTimeoutId, intentionalClose, readyState, wire, timers, now,
                   removed, scheduled, listeners, sendsSinceClear>>

(* transport t delivers a message; only an OPEN transport does.  The  *)
(* MessageEvent object is identified by its arrival number.           *)
MessageEvent(t) ==
    /\ phase = "live"
    /\ heard' = Dispatch(t, "message")
    /\ UNCHANGED <<context, trackedListeners, onCloseSaw, stranded>>
    /\ readyState[t] = OPEN
    /\ Traffic < MaxTraffic
    /\ receivedMessages' = Record(receivedMessages,
                                  [message |-> calls.onMessage + 1],
                                  maxMessageHistory)
    /\ calls' = [calls EXCEPT !.onMessage = @ + 1]
    /\ arrivalsSinceClear' = arrivalsSinceClear + 1
    /\ UNCHANGED <<phase, config, socket, connectionStatus, sentMessages, reconnectAttempts,
                   reconnectTimeoutId, intentionalClose, readyState, wire, timers, now,
                   removed, scheduled, listeners, sendsSinceClear>>

(* a timer callback that starts the new connection with empty histories *)
TimerFire_fresh(id) ==
    /\ id \in PendingTimers
    /\ timers[id].rem = 0
    /\ Len(readyState) < MaxTransports
    /\ timers' = [timers EXCEPT ![id].st = "fired"]
    /\ createSocket
    /\ sentMessages' = <<>>
    /\ receivedMessages' = <<>>
    /\ heard' = <<>>
    /\ UNCHANGED <<context, trackedListeners, onCloseSaw, stranded>>
    /\ UNCHANGED <<phase, config, reconnectAttempts, reconnectTimeoutId,
                   wire, now, calls, removed, scheduled, since>>

(* ------------------------------ reconnect timer ------------------------ *)
(* The setTimeout callback of attemptReconnect: createSocket(this.url).   *)
TimerFire(id) ==
    /\ id \in PendingTimers
    /\ timers[id].rem = 0
    /\ Len(readyState) < MaxTransports
    /\ timers' = [timers EXCEPT ![id].st = "fired"]
    /\ createSocket
    /\ heard' = <<>>
    /\ UNCHANGED <<context, trackedListeners, onCloseSaw, stranded>>
    /\ UNCHANGED <<phase, config, histories, reconnectAttempts, reconnectTimeoutId,
                   wire, now, calls, removed, scheduled, since>>

(* removeSocket that keeps the histories *)
removeSocket_keepHistory ==
    /\ phase = "live"
    /\ intentionalClose' = TRUE
    /\ timers' = ClearTimeout(timers, reconnectTimeoutId)
    /\ reconnectTimeoutId' = 0
    /\ IF socket # 0
         THEN /\ readyState' = [readyState EXCEPT ![socket] = TransportClose(@)]
              /\ connectionStatus' = CLOSED
              /\ socket' = 0
         ELSE UNCHANGED <<readyState, connectionStatus, socket>>
    /\ reconnectAttempts' = 0
    /\ removed' = TRUE
    /\ heard' = <<>>
    /\ UNCHANGED <<context, trackedListeners, onCloseSaw, stranded>>
    /\ UNCHANGED <<phase, config, wire, now, calls, scheduled, listeners, histories, since>>

(* removeSocket that leaves intentionalClose alone *)
removeSocket_noFlag ==
    /\ phase = "live"
    /\ timers' = ClearTimeout(timers, reconnectTimeoutId)
    /\ reconnectTimeoutId' = 0
    /\ IF socket # 0
         THEN /\ readyState' = [readyState EXCEPT ![socket] = TransportClose(@)]
              /\ connectionStatus' = CLOSED
              /\ socket' = 0
              /\ sentMessages' = <<>>
              /\ receivedMessages' = <<>>
              /\ sendsSinceClear' = 0
              /\ arrivalsSinceClear' = 0
         ELSE UNCHANGED <<readyState, connectionStatus, socket, histories, since>>
    /\ reconnectAttempts' = 0
    /\ removed' = TRUE
    /\ heard' = <<>>
    /\ UNCHANGED <<context, trackedListeners, onCloseSaw, stranded>>
    /\ UNCHANGED <<phase, config, wire, now, calls, scheduled, intentionalClose, listeners>>

(* removeSocket that forgets the pending timer without clearing it *)
removeSocket_noClearTimeout ==
    /\ phase = "live"
    /\ intentionalClose' = TRUE
    /\ reconnectTimeoutId' = 0
    /\ IF socket # 0
         THEN /\ readyState' = [readyState EXCEPT ![socket] = TransportClose(@)]
              /\ connectionStatus' = CLOSED
              /\ socket' = 0
              /\ sentMessages' = <<>>
              /\ receivedMessages' = <<>>
              /\ sendsSinceClear' = 0
              /\ arrivalsSinceClear' = 0
         ELSE UNCHANGED <<readyState, connectionStatus, socket, histories, since>>
    /\ reconnectAttempts' = 0
    /\ removed' = TRUE
    /\ heard' = <<>>
    /\ UNCHANGED <<context, trackedListeners, onCloseSaw, stranded>>
    /\ UNCHANGED <<phase, config, wire, now, calls, scheduled, listeners, timers>>

(* removeSocket that keeps the handle of the transport it closed *)
removeSocket_keepHandle ==
    /\ phase = "live"
    /\ intentionalClose' = TRUE
    /\ timers' = ClearTimeout(timers, reconnectTimeoutId)
    /\ reconnectTimeoutId' = 0
    /\ IF socket # 0
         THEN /\ readyState' = [readyState EXCEPT ![socket] = TransportClose(@)]
              /\ connectionStatus' = CLOSED
              /\ sentMessages' = <<>>
              /\ receivedMessages' = <<>>
              /\ sendsSinceClear' = 0
              /\ arrivalsSinceClear' = 0
              /\ UNCHANGED socket
         ELSE UNCHANGED <<readyState, connectionStatus, socket, histories, since>>
    /\ reconnectAttempts' = 0
    /\ removed' = TRUE
    /\ heard' = <<>>
    /\ UNCHANGED <<context, trackedListeners, onCloseSaw, stranded>>
    /\ UNCHANGED <<phase, config, wire, now, calls, scheduled, listeners>>

(* ------------------------------ removeSocket --------------------------- *)
removeSocket ==
    /\ phase = "live"
    /\ intentionalClose' = TRUE
    /\ timers' = ClearTimeout(timers, reconnectTimeoutId)
    /\ reconnectTimeoutId' = 0
    /\ IF socket # 0
         THEN /\ readyState' = [readyState EXCEPT ![socket] = TransportClose(@)]
              /\ connectionStatus' = CLOSED
              /\ socket' = 0
              /\ sentMessages' = <<>>
              /\ receivedMessages' = <<>>
              /\ sendsSinceClear' = 0
              /\ arrivalsSinceClear' = 0
         ELSE UNCHANGED <<readyState, connectionStatus, socket, histories, since>>
    /\ reconnectAttempts' = 0
    /\ removed' = TRUE
    /\ heard' = <<>>
    /\ UNCHANGED <<context, trackedListeners, onCloseSaw, stranded>>
    /\ UNCHANGED <<phase, config, wire, now, calls, scheduled, listeners>>

(* ------------------------------ environment ---------------------------- *)
(* The closing handshake of transport t starts without the client asking  *)
(* for it (the peer closes, or the holder of the public socket field      *)
(* calls close()): readyState becomes CLOSING, the close event follows.   *)
TransportClosing(t) ==
    /\ phase = "live"
    /\ readyState[t] = OPEN
    /\ readyState' = [readyState EXCEPT ![t] = CLOSING]
    /\ heard' = <<>>
    /\ UNCHANGED <<context, trackedListeners, onCloseSaw, stranded>>
    /\ UNCHANGED <<phase, config, socket, connectionStatus, histories, reconnectAttempts,
                   reconnectTimeoutId, intentionalClose, wire, timers, now, calls,
                   removed, scheduled, listeners, since>>

(* One unit of time passes while a timer is running down. *)
Tick ==
    /\ \E i \in PendingTimers : timers[i].rem > 0
    /\ now' = now + 1
    /\ timers' = [i \in 1..Len(timers) |->
                    IF timers[i].st = "pending" /\ timers[i].rem > 0
                      THEN [timers[i] EXCEPT !.rem = @ - 1]
                      ELSE timers[i]]
    /\ heard' = <<>>
    /\ UNCHANGED <<context, trackedListeners, onCloseSaw, stranded>>
    /\ UNCHANGED <<phase, config, socket, connectionStatus, histories, reconnectAttempts,
                   reconnectTimeoutId, intentionalClose, readyState, wire, calls,
                   removed, scheduled, listeners, since>>

Next ==
    \/ \E a \in ConstructorArgs : Constructor(a[1], a[2], a[3]) /\ UNCHANGED context
    \/ \E r \in Registrations : addEventListener(r[1], r[2])
    \/ \E r \in Registrations : removeEventListener(r[1], r[2])
    \/ \E m \in Messages : sendMessage(m)
    \/ clearSentMessages
    \/ clearReceivedMessages
    \/ removeSocket
    \/ \E t \in 1..Len(readyState) : OpenEvent(t)
    \/ \E t \in 1..Len(readyState) : CloseEvent(t)
    \/ \E t \in 1..Len(readyState) : ErrorEvent(t)
    \/ \E t \in 1..Len(readyState) : MessageEvent(t)
    \/ \E t \in 1..Len(readyState) : TransportClosing(t)
    \/ \E id \in 1..Len(timers) : TimerFire(id)
    \/ Tick

Spec == Init /\ [][Next]_vars

(* Timers fire and time passes: the scheduling setTimeout guarantees. *)
FairSpec == Spec /\ WF_vars(Tick) /\ WF_vars(\E id \in 1..Len(timers) : TimerFire(id))

(* FairSpec, and every transport ends in a close event *)
FailSpec == FairSpec /\ WF_vars(\E t \in 1..Len(readyState) : CloseEvent(t))

(* ---------------- removeSocket called from the onClose callback -------- *)
(* a close handler that evaluates the reconnect policy before it invokes  *)
(* onClose: the policy runs ahead of the removeSocket of the callback     *)
CloseEventRemoving_policyFirst(t) ==
    LET retry == /\ ~intentionalClose
                 /\ reconnectOptions.enabled
                 /\ reconnectAttempts < reconnectOptions.maxAttempts
        set == IF retry
                 THEN Append(timers, [st |-> "pending", rem |-> reconnectOptions.delay])
                 ELSE timers
        id == IF retry THEN Len(timers) + 1 ELSE reconnectTimeoutId
        closed == [readyState EXCEPT ![t] = CLOSED]
    IN  /\ phase = "live"
        /\ readyState[t] # CLOSED
        /\ heard' = Dispatch(t, "close")
        /\ UNCHANGED <<context, trackedListeners, stranded>>
        /\ connectionStatus' = CLOSED
        /\ scheduled' = IF retry THEN scheduled + 1 ELSE scheduled
        /\ onCloseSaw' = connectionStatus'
        /\ calls' = [calls EXCEPT !.onClose = @ + 1]
        /\ intentionalClose' = TRUE
        /\ timers' = ClearTimeout(set, id)
        /\ reconnectTimeoutId' = 0
        /\ IF socket # 0
             THEN /\ readyState' = [closed EXCEPT ![socket] = TransportClose(@)]
                  /\ socket' = 0
                  /\ sentMessages' = <<>>
                  /\ receivedMessages' = <<>>
                  /\ sendsSinceClear' = 0
                  /\ arrivalsSinceClear' = 0
             ELSE /\ readyState' = closed
                  /\ UNCHANGED <<socket, histories, since>>
        /\ reconnectAttempts' = 0
        /\ removed' = TRUE
        /\ listeners' = [listeners EXCEPT ![t] = NoListeners]
        /\ UNCHANGED <<phase, config, wire, now>>

(* Transport t is closed and the onClose callback of the caller calls     *)
(* removeSocket().  The handler sets the status and invokes onClose; the  *)
(* removeSocket inside it sets the flag, clears the timer, closes and     *)
(* drops this.socket, empties the histories and resets the counter; the   *)
(* attemptReconnect that follows finds the flag and returns.              *)
CloseEventRemoving(t) ==
    LET closed == [readyState EXCEPT ![t] = CLOSED]
    IN  /\ phase = "live"
        /\ readyState[t] # CLOSED
        /\ heard' = Dispatch(t, "close")
        /\ UNCHANGED <<context, trackedListeners, stranded>>
        /\ connectionStatus' = CLOSED
        /\ onCloseSaw' = connectionStatus'
        /\ calls' = [calls EXCEPT !.onClose = @ + 1]
        /\ intentionalClose' = TRUE
        /\ timers' = ClearTimeout(timers, reconnectTimeoutId)
        /\ reconnectTimeoutId' = 0
        /\ IF socket # 0
             THEN /\ readyState' = [closed EXCEPT ![socket] = TransportClose(@)]
                  /\ socket' = 0
                  /\ sentMessages' = <<>>
                  /\ receivedMessages' = <<>>
                  /\ sendsSinceClear' = 0
                  /\ arrivalsSinceClear' = 0
             ELSE /\ readyState' = closed
                  /\ UNCHANGED <<socket, histories, since>>
        /\ reconnectAttempts' = 0
        /\ removed' = TRUE
        /\ listeners' = [listeners EXCEPT ![t] = NoListeners]
        /\ UNCHANGED <<phase, config, wire, now, scheduled>>

(* The client of a caller whose onClose callback calls removeSocket() on  *)
(* some close events and calls it nowhere else.                           *)
CallbackNext ==
    \/ \E a \in ConstructorArgs : Constructor(a[1], a[2], a[3]) /\ UNCHANGED context
    \/ \E m \in Messages : sendMessage(m)
    \/ \E t \in 1..Len(readyState) : OpenEvent(t)
    \/ \E t \in 1..Len(readyState) : CloseEvent(t)
    \/ \E t \in 1..Len(readyState) : CloseEventRemoving(t)
    \/ \E t \in 1..Len(readyState) : ErrorEvent(t)
    \/ \E t \in 1..Len(readyState) : MessageEvent(t)
    \/ \E t \in 1..Len(readyState) : TransportClosing(t)
    \/ \E id \in 1..Len(timers) : TimerFire(id)
    \/ Tick

CallbackSpec == Init /\ [][CallbackNext]_vars

(* ----------------------- listeners across a reconnect ----------------- *)
(* The timer callback, noting the listeners of the transport it replaces: *)
(* they stay registered on that transport, which the client drops.        *)
Reconnect(id) ==
    /\ id \in PendingTimers
    /\ timers[id].rem = 0
    /\ Len(readyState) < MaxTransports
    /\ timers' = [timers EXCEPT ![id].st = "fired"]
    /\ createSocket
    /\ stranded' = (socket # 0 /\ listeners[socket] # NoListeners)
    /\ heard' = <<>>
    /\ UNCHANGED <<context, trackedListeners, onCloseSaw>>
    /\ UNCHANGED <<phase, config, histories, reconnectAttempts, reconnectTimeoutId,
                   wire, now, calls, removed, scheduled, since>>

(* The client with callers that register listeners, send nothing and     *)
(* clear nothing.                                                         *)
ListenerNext ==
    \/ \E a \in ConstructorArgs : Constructor(a[1], a[2], a[3]) /\ UNCHANGED context
    \/ \E r \in Registrations : addEventListener(r[1], r[2])
    \/ \E r \in Registrations : removeEventListener(r[1], r[2])
    \/ removeSocket
    \/ \E t \in 1..Len(readyState) : OpenEvent(t)
    \/ \E t \in 1..Len(readyState) : CloseEvent(t)
    \/ \E t \in 1..Len(readyState) : ErrorEvent(t)
    \/ \E t \in 1..Len(readyState) : MessageEvent(t)
    \/ \E t \in 1..Len(readyState) : TransportClosing(t)
    \/ \E id \in 1..Len(timers) : Reconnect(id)
    \/ Tick

ListenerSpec == Init /\ [][ListenerNext]_vars

(* ============================ SocketProvider =========================== *)
(* The provider component: its script runs once when it is mounted, with  *)
(* the props url and svelteSocket.  The url prop is absent or a string;   *)
(* the svelteSocket prop, when given, is the SvelteSocket constructed     *)
(* before.                                                                *)
UrlProps == {[given |-> FALSE, value |-> EmptyUrl]} \cup [given : {TRUE}, value : Urls]

(* !url is false for a non-empty string only *)
Truthy(u) == u.given /\ u.value # EmptyUrl

(* maxMessageHistory of new SvelteSocket({ url }) *)
DefaultMaxMessageHistory == 50

(* every field of the SvelteSocket instance, its transports and timers *)
instance ==
    <<phase, config, socket, connectionStatus, histories, reconnectAttempts,
      reconnectTimeoutId, intentionalClose, readyState, wire, timers, now, calls,
      removed, scheduled, listeners, since, onCloseSaw, stranded>>

(* a provider that insists on the url prop *)
SocketProviderError_needsUrl(u, s) ==
    IF ~Truthy(u)
      THEN [kind |-> "MissingProps", named |-> "none"]
    ELSE NoError

(* The error the provider's script throws for these props, NoError if   *)
(* none.                                                                *)
SocketProviderError(u, s) ==
    IF ~Truthy(u) /\ ~s
      THEN [kind |-> "MissingProps", named |-> "none"]
    ELSE NoError

(* svelteSocket ?? new SvelteSocket({ url }), then setSocket; s says      *)
(* whether the svelteSocket prop is given.                                *)
SocketProvider(u, s) ==
    /\ context = NoContext
    /\ IF s THEN phase = "live" ELSE phase = "new"
    /\ IF SocketProviderError(u, s) # NoError
         THEN /\ heard' = <<>>
              /\ UNCHANGED <<instance, context, trackedListeners>>
       ELSE IF s
         THEN /\ context' = TheSocket
              /\ heard' = <<>>
              /\ UNCHANGED <<instance, trackedListeners>>
       ELSE /\ Constructor(u.value, NoReconnect, DefaultMaxMessageHistory)
            /\ context' = IF ValidUrl(u.value) THEN TheSocket ELSE NoContext

(* The client with its environment, constructed by the caller or by the  *)
(* provider, and the provider mounted at any moment.                     *)
ProviderNext ==
    \/ \E a \in ConstructorArgs : Constructor(a[1], a[2], a[3]) /\ UNCHANGED context
    \/ \E u \in UrlProps, s \in BOOLEAN : SocketProvider(u, s)
    \/ \E m \in Messages : sendMessage(m)
    \/ removeSocket
    \/ \E t \in 1..Len(readyState) : OpenEvent(t)
    \/ \E t \in 1..Len(readyState) : CloseEvent(t)
    \/ \E t \in 1..Len(readyState) : ErrorEvent(t)
    \/ \E t \in 1..Len(readyState) : MessageEvent(t)
    \/ \E t \in 1..Len(readyState) : TransportClosing(t)
    \/ \E id \in 1..Len(timers) : TimerFire(id)
    \/ Tick

ProviderSpec == Init /\ [][ProviderNext]_vars

(* ===================== the listener-tracking version =================== *)
(* src/lib/SvelteSocket.svelte: the class with the private Map listeners  *)
(* (here trackedListeners: event type -> callbacks in insertion order),   *)
(* isConnected (here connectionStatus OPEN or CLOSED) and sentMessages.   *)
(* It has no reconnection, no received history and no callbacks; the      *)
(* variables of those stay as Init leaves them.                           *)
absent ==
    <<receivedMessages, reconnectOptions, maxMessageHistory, reconnectAttempts,
      reconnectTimeoutId, intentionalClose, wire, timers, now, calls, removed,
      scheduled, since, onCloseSaw, context, stranded>>

(* a removal from the Map that keeps the key of an emptied set *)
TrackDelete_keepKey(map, event, callback) ==
    IF event \notin DOMAIN map
      THEN map
      ELSE [map EXCEPT ![event] = SelectSeq(@, LAMBDA c : c # callback)]

(* if (!listeners.has(event)) listeners.set(event, new SvelteSet());      *)
(* listeners.get(event).add(callback)                                     *)
TrackAdd(map, event, callback) ==
    LET withKey == IF event \in DOMAIN map
                     THEN map
                     ELSE [k \in DOMAIN map \cup {event} |->
                             IF k = event THEN <<>> ELSE map[k]]
    IN IF \E i \in 1..Len(withKey[event]) : withKey[event][i] = callback
         THEN withKey
         ELSE [withKey EXCEPT ![event] = Append(@, callback)]

(* eventListeners.delete(callback), and listeners.delete(event) once the  *)
(* set is empty                                                           *)
TrackDelete(map, event, callback) ==
    IF event \notin DOMAIN map
      THEN map
      ELSE LET rest == SelectSeq(map[event], LAMBDA c : c # callback)
           IN IF rest = <<>>
                THEN [k \in DOMAIN map \ {event} |-> map[k]]
                ELSE [map EXCEPT ![event] = rest]

(* getEventListeners(event): Array.from(listeners.get(event) || []) *)
getEventListeners(event) ==
    IF event \in DOMAIN trackedListeners THEN trackedListeners[event] ELSE <<>>

(* constructor(url): createSocket(url) with no transport held before *)
trackedConstructor ==
    /\ phase = "new"
    /\ phase' = "live"
    /\ url' = WsUrl
    /\ socket' = 1
    /\ readyState' = <<CONNECTING>>
    /\ listeners' = <<NoListeners>>
    /\ heard' = <<>>
    /\ UNCHANGED <<connectionStatus, sentMessages, trackedListeners, absent>>

(* addEventListener: throws without a handle, else registers on the       *)
(* transport and tracks the callback                                      *)
trackedAddEventListener(event, callback) ==
    /\ phase = "live"
    /\ IF socket = 0
         THEN UNCHANGED <<listeners, trackedListeners>>
         ELSE /\ listeners' = [listeners EXCEPT ![socket] = AddListener(@, event, callback)]
              /\ trackedListeners' = TrackAdd(trackedListeners, event, callback)
    /\ heard' = <<>>
    /\ UNCHANGED <<phase, url, socket, connectionStatus, sentMessages, readyState, absent>>

(* removeEventListener: removes from the transport if there is one, and   *)
(* from the Map in any case                                               *)
trackedRemoveEventListener(event, callback) ==
    /\ phase = "live"
    /\ listeners' = IF socket # 0
                      THEN [listeners EXCEPT ![socket] = RemoveListener(@, event, callback)]
                      ELSE listeners
    /\ trackedListeners' = TrackDelete(trackedListeners, event, callback)
    /\ heard' = <<>>
    /\ UNCHANGED <<phase, url, socket, connectionStatus, sentMessages, readyState, absent>>

(* removeSocket: with a handle, closes the transport, drops the handle,   *)
(* clears the Map and the sent history                                    *)
trackedRemoveSocket ==
    /\ phase = "live"
    /\ IF socket # 0
         THEN /\ readyState' = [readyState EXCEPT ![socket] = TransportClose(@)]
              /\ socket' = 0
              /\ trackedListeners' = EmptyMap
              /\ sentMessages' = <<>>
              /\ listeners' = IF readyState[socket] = CLOSED
                                THEN [listeners EXCEPT ![socket] = NoListeners]
                                ELSE listeners
         ELSE UNCHANGED <<readyState, socket, trackedListeners, sentMessages, listeners>>
    /\ heard' = <<>>
    /\ UNCHANGED <<phase, url, connectionStatus, absent>>

(* the open handler: isConnected = true *)
trackedOpenEvent(t) ==
    /\ phase = "live"
    /\ readyState[t] = CONNECTING
    /\ readyState' = [readyState EXCEPT ![t] = OPEN]
    /\ connectionStatus' = OPEN
    /\ heard' = Dispatch(t, "open")
    /\ UNCHANGED <<phase, url, socket, sentMessages, listeners, trackedListeners, absent>>

(* the close handler: isConnected = false *)
trackedCloseEvent(t) ==
    /\ phase = "live"
    /\ readyState[t] # CLOSED
    /\ readyState' = [readyState EXCEPT ![t] = CLOSED]
    /\ connectionStatus' = CLOSED
    /\ heard' = Dispatch(t, "close")
    /\ listeners' = IF t # socket THEN [listeners EXCEPT ![t] = NoListeners] ELSE listeners
    /\ UNCHANGED <<phase, url, socket, sentMessages, trackedListeners, absent>>

TrackedNext ==
    \/ trackedConstructor
    \/ \E r \in Registrations : trackedAddEventListener(r[1], r[2])
    \/ \E r \in Registrations : trackedRemoveEventListener(r[1], r[2])
    \/ trackedRemoveSocket
    \/ \E t \in 1..Len(readyState) : trackedOpenEvent(t)
    \/ \E t \in 1..Len(readyState) : trackedCloseEvent(t)

TrackedSpec == Init /\ [][TrackedNext]_vars

TypeOK ==
    /\ phase \in {"new", "live", "threw"}
    /\ socket \in 0..Len(readyState)
    /\ connectionStatus \in ReadyStates
    /\ \A t \in 1..Len(readyState) : readyState[t] \in ReadyStates
    /\ reconnectTimeoutId \in 0..Len(timers)
    /\ Len(readyState) <= MaxTransports
    /\ Len(listeners) = Len(readyState)
    /\ sendsSinceClear \in 0..MaxTraffic
    /\ arrivalsSinceClear \in 0..MaxTraffic
    /\ \A i \in 1..Len(heard) : heard[i] \in Callbacks
    /\ onCloseSaw \in {-1} \cup ReadyStates
    /\ context \in {NoContext, TheSocket}
    /\ DOMAIN trackedListeners \subseteq Kinds
    /\ stranded \in BOOLEAN

(* ============================== properties ============================= *)

AllClosed == \A t \in 1..Len(readyState) : readyState[t] = CLOSED

(* C1: with reconnection enabled and maxAttempts = M, reconnectAttempts   *)
(* never exceeds M, at most M reconnects are scheduled after an open, and *)
(* a close event handled once M have been scheduled leaves the counter    *)
(* and the timers alone.                                                  *)
C1_Budget ==
    reconnectOptions.enabled =>
        /\ reconnectAttempts <= reconnectOptions.maxAttempts
        /\ scheduled <= reconnectOptions.maxAttempts

C1_MaxAttempts ==
    /\ []C1_Budget
    /\ [][\A t \in 1..Len(readyState) :
            (CloseEvent(t) /\ reconnectOptions.enabled
                           /\ scheduled = reconnectOptions.maxAttempts)
            => UNCHANGED <<reconnectAttempts, timers, reconnectTimeoutId>>]_vars

(* the budget of M >= 1 is used up, the last transport has closed as well *)
(* and that close set no timer                                            *)
C1_Witness ==
    /\ reconnectOptions.enabled
    /\ reconnectOptions.maxAttempts >= 1
    /\ ~removed
    /\ scheduled = reconnectOptions.maxAttempts
    /\ Len(timers) = reconnectOptions.maxAttempts
    /\ Len(readyState) = reconnectOptions.maxAttempts + 1
    /\ AllClosed
    /\ PendingTimers = {}

(* C2: once removeSocket has been called no transport is created any      *)
(* more, no reconnect timer is pending or gets set, and removeSocket      *)
(* returns with connectionStatus CLOSED.                                  *)
C2_NoReconnectAfterRemove ==
    /\ [](removed => PendingTimers = {})
    /\ [][removed => /\ Len(readyState') = Len(readyState)
                     /\ Len(timers') = Len(timers)
                     /\ socket' = 0]_vars
    /\ [][removeSocket => connectionStatus' = CLOSED /\ PendingTimers' = {}]_vars

(* removeSocket was called while a reconnect timer was pending *)
C2_Witness ==
    /\ removed
    /\ \E i \in 1..Len(timers) : timers[i].st = "cleared"
    /\ connectionStatus = CLOSED

(* C3: an unexpected close with budget left counts one attempt and sets   *)
(* one timer with the configured delay; the timer fires only after the    *)
(* delay has run down, and firing creates the next transport with         *)
(* connectionStatus CONNECTING; a pending timer ends only by firing or by *)
(* removeSocket, and it does end; the open event of the current transport *)
(* makes connectionStatus OPEN.                                           *)
C3_Scheduled ==
    (~removed /\ reconnectOptions.enabled
              /\ reconnectAttempts < reconnectOptions.maxAttempts
              /\ calls'.onClose # calls.onClose)
    => \A t \in 1..Len(readyState) :
        CloseEvent(t)
        => /\ reconnectAttempts' = reconnectAttempts + 1
           /\ timers' = Append(timers, [st |-> "pending", rem |-> reconnectOptions.delay])
           /\ reconnectTimeoutId' = Len(timers')
           /\ PendingTimers' = {reconnectTimeoutId'}

C3_TimerEnds ==
    timers' # timers
    => \A id \in PendingTimers :
        timers'[id].st # "pending"
        => \/ /\ timers'[id].st = "fired"
              /\ timers[id].rem = 0
              /\ Len(readyState') = Len(readyState) + 1
              /\ socket' = Len(readyState')
              /\ readyState'[socket'] = CONNECTING
              /\ connectionStatus' = CONNECTING
           \/ /\ timers'[id].st = "cleared"
              /\ removed'

C3_Opens ==
    calls'.onOpen # calls.onOpen
    => \A t \in 1..Len(readyState) :
        OpenEvent(t) => t = socket /\ connectionStatus' = OPEN /\ readyState'[socket'] = OPEN

C3_Reconnect ==
    /\ [][C3_Scheduled]_vars
    /\ [][C3_TimerEnds]_vars
    /\ [][C3_Opens]_vars
    /\ (PendingTimers # {}) ~> (PendingTimers = {})

(* a reconnect went all the way: close, timer, new transport, open *)
C3_Witness ==
    /\ ~removed
    /\ Len(readyState) >= 2
    /\ \E i \in 1..Len(timers) : timers[i].st = "fired"
    /\ socket = Len(readyState)
    /\ readyState[socket] = OPEN
    /\ connectionStatus = OPEN

(* C4: handling an open event leaves reconnectAttempts at 0, so the       *)
(* counter is 0 whenever connectionStatus is OPEN.                        *)
C4_ResetOnOpen ==
    /\ [](connectionStatus = OPEN => reconnectAttempts = 0)
    /\ [][\A t \in 1..Len(readyState) : OpenEvent(t) => reconnectAttempts' = 0]_vars

(* the second transport opened after the first one had failed and an     *)
(* attempt had been counted                                               *)
C4_Witness ==
    /\ ~removed
    /\ calls.onOpen = 1
    /\ Len(readyState) = 2
    /\ readyState[1] = CLOSED
    /\ readyState[2] = OPEN
    /\ Len(timers) = 1
    /\ reconnectOptions.maxAttempts >= 1
    /\ reconnectAttempts = 0

(* C5: with reconnectOptions absent or disabled no timer is ever set, no  *)
(* second transport is ever created, and from the close event on          *)
(* connectionStatus is CLOSED.                                            *)
C5_DisabledNoReconnect ==
    (phase = "live" /\ ~reconnectOptions.enabled)
    => /\ Len(timers) = 0
       /\ Len(readyState) = 1
       /\ (calls.onClose >= 1 => connectionStatus = CLOSED /\ AllClosed)

(* a disabled policy with budget left, and the open connection was lost *)
C5_Witness ==
    /\ reconnectOptions.present
    /\ ~reconnectOptions.enabled
    /\ reconnectOptions.maxAttempts >= 1
    /\ ~removed
    /\ calls.onOpen = 1
    /\ calls.onClose = 1
    /\ connectionStatus = CLOSED

(* C6: while no open event has been delivered the client creates at most  *)
(* maxAttempts transports after the first; the close event that finds the *)
(* budget used up sets no timer and invokes no error callback; once every *)
(* transport is closed and no timer is pending nothing changes any more;  *)
(* and if every transport ends in a close event that state is reached.    *)
Terminal ==
    /\ phase = "live"
    /\ connectionStatus = CLOSED
    /\ AllClosed
    /\ PendingTimers = {}

C6_AtMostBudget ==
    (phase = "live" /\ calls.onOpen = 0)
    => Len(readyState) <= 1 + (IF reconnectOptions.enabled
                                 THEN reconnectOptions.maxAttempts ELSE 0)

C6_SilentClose ==
    \A t \in 1..Len(readyState) :
        (CloseEvent(t) /\ reconnectOptions.enabled
                       /\ reconnectAttempts >= reconnectOptions.maxAttempts)
        => /\ connectionStatus' = CLOSED
           /\ PendingTimers' = PendingTimers
           /\ Len(timers') = Len(timers)
           /\ calls'.onError = calls.onError

C6_Stays ==
    Terminal => /\ Terminal'
                /\ Len(readyState') = Len(readyState)
                /\ Len(timers') = Len(timers)
                /\ calls' = calls

C6_Exhaustion ==
    /\ []C6_AtMostBudget
    /\ [][C6_SilentClose]_vars
    /\ [][C6_Stays]_vars
    /\ <>[](phase # "live" \/ calls.onOpen > 0 \/ Terminal)

(* every attempt failed: the first transport and maxAttempts >= 1 more,   *)
(* all closed, no open event, no error callback                           *)
C6_Witness ==
    /\ Terminal
    /\ ~removed
    /\ reconnectOptions.enabled
    /\ reconnectOptions.maxAttempts >= 1
    /\ calls.onOpen = 0
    /\ calls.onError = 0
    /\ Len(readyState) = 1 + reconnectOptions.maxAttempts
    /\ calls.onClose = Len(readyState)

(* C7: the constructor succeeds exactly for the urls that start with      *)
(* ws:// or wss://; for every other url it throws, and then no transport  *)
(* exists and every field still has its initial value.                    *)
Untouched ==
    /\ url = <<>>
    /\ socket = 0
    /\ connectionStatus = CLOSED
    /\ reconnectOptions = NoReconnect
    /\ maxMessageHistory = 0
    /\ readyState = <<>>
    /\ timers = <<>>
    /\ sentMessages = <<>>
    /\ receivedMessages = <<>>
    /\ reconnectAttempts = 0
    /\ reconnectTimeoutId = 0
    /\ intentionalClose = FALSE

C7_Constructs ==
    \A a \in ConstructorArgs :
        Constructor(a[1], a[2], a[3])
        => /\ phase' = "live" <=> a[1] \in {WsUrl, WssUrl}
           /\ phase' = "threw" <=> a[1] \in {HttpUrl, HttpsUrl, NoSchemeUrl, EmptyUrl, WsNoSlashUrl}
           /\ phase' = "live" => /\ url' = a[1]
                                 /\ Len(readyState') = 1
                                 /\ socket' = 1

C7_UrlValidation ==
    /\ [](phase = "threw" => Untouched)
    /\ [][C7_Constructs]_vars

(* the constructor threw *)
C7_Witness == phase = "threw" /\ Untouched

(* C8 as stated: sendMessage called while connectionStatus is OPEN        *)
(* succeeds.                                                              *)
C8_SucceedsWhileStatusOpen ==
    (phase = "live" /\ connectionStatus = OPEN) => sendMessageError = NoError

(* C8 as amended: sendMessage(m) called while the current transport's     *)
(* readyState is OPEN succeeds: m goes to that transport exactly once and *)
(* exactly one entry {message: m, timestamp} is added to sentMessages, at *)
(* index 0, in front of the entries that were there (cut to the capacity).*)
C8_Sent ==
    \A m \in Messages :
        (sendMessage(m) /\ socket # 0 /\ readyState[socket] = OPEN)
        => /\ wire' = Append(wire, <<socket, m>>)
           /\ Len(sentMessages') >= 1
           /\ sentMessages'[1] = [message |-> m, timestamp |-> now]
           /\ Len(sentMessages') <= Len(sentMessages) + 1
           /\ \A i \in 2..Len(sentMessages') : sentMessages'[i] = sentMessages[i - 1]
           /\ (maxMessageHistory = 0 \/ Len(sentMessages) < maxMessageHistory)
                 => Len(sentMessages') = Len(sentMessages) + 1

C8_SendWhileTransportOpen ==
    /\ []((phase = "live" /\ socket # 0 /\ readyState[socket] = OPEN)
            => connectionStatus = OPEN /\ sendMessageError = NoError)
    /\ [][C8_Sent]_vars

(* two payloads went out on the open connection, the later one is at      *)
(* index 0                                                                *)
C8_Witness ==
    /\ connectionStatus = OPEN
    /\ socket # 0
    /\ readyState[socket] = OPEN
    /\ Len(wire) = 2
    /\ wire[1][2] # wire[2][2]
    /\ Len(sentMessages) = 2
    /\ sentMessages[1].message = wire[2][2]
    /\ sentMessages[2].message = wire[1][2]

(* C9 as stated: sendMessage called after construction and before the     *)
(* first open event fails with the not-connected error.                   *)
C9_NotConnectedBeforeOpen ==
    (phase = "live" /\ calls.onOpen = 0) => sendMessageError.kind = "NotConnected"

(* C9 as amended: sendMessage called after construction and before the    *)
(* first open event, with removeSocket not called, fails with the         *)
(* invalid-state error, not with the not-connected error.                 *)
C9_InvalidStateBeforeOpen ==
    (phase = "live" /\ calls.onOpen = 0 /\ ~removed)
    => /\ sendMessageError.kind = "InvalidState"
       /\ sendMessageError.named \in {"CONNECTING", "CLOSED"}

(* right after construction: the transport is still connecting *)
C9_Witness ==
    /\ phase = "live"
    /\ calls.onOpen = 0
    /\ ~removed
    /\ connectionStatus = CONNECTING
    /\ readyState[socket] = CONNECTING
    /\ sendMessageError = [kind |-> "InvalidState", named |-> "CONNECTING"]

(* C10: with a transport handle and connectionStatus CONNECTING, CLOSING  *)
(* or CLOSED, sendMessage fails with the invalid-state error, the error   *)
(* names that status (never OPEN), and the transport is not OPEN, so the  *)
(* call forwards nothing.                                                 *)
C10_InvalidStateError ==
    (phase = "live" /\ socket # 0 /\ connectionStatus \in {CONNECTING, CLOSING, CLOSED})
    => /\ sendMessageError.kind = "InvalidState"
       /\ sendMessageError.named # "OPEN"
       /\ connectionStatus = CONNECTING => sendMessageError.named = "CONNECTING"
       /\ connectionStatus = CLOSING => sendMessageError.named = "CLOSING"
       /\ connectionStatus = CLOSED => sendMessageError.named = "CLOSED"
       /\ readyState[socket] # OPEN

(* the connection was open, was lost, and the handle is still held *)
C10_Witness ==
    /\ phase = "live"
    /\ socket # 0
    /\ calls.onOpen >= 1
    /\ connectionStatus = CLOSED
    /\ sendMessageError = [kind |-> "InvalidState", named |-> "CLOSED"]


(* C11: sendMessage called while the client holds no transport handle     *)
(* (after removeSocket) fails with the not-connected error, which names   *)
(* the status CLOSED; nothing is forwarded to any transport by the call   *)
(* or at any later time while no handle is held.                          *)
C11_NotConnected ==
    (phase = "live" /\ socket = 0)
    => /\ removed
       /\ sendMessageError = [kind |-> "NotConnected", named |-> "CLOSED"]

C11_NothingForwarded == socket = 0 => wire' = wire

C11_SendWithoutHandle ==
    /\ []C11_NotConnected
    /\ [](removed => socket = 0)
    /\ [][C11_NothingForwarded]_vars

(* a client that sent a payload and then released its transport *)
C11_Witness ==
    /\ phase = "live"
    /\ removed
    /\ socket = 0
    /\ Len(wire) >= 1
    /\ sendMessageError.kind = "NotConnected"


(* C12: a sendMessage, addEventListener or removeEventListener call that  *)
(* fails (not-connected or invalid-state error) leaves the client's state *)
(* unchanged: connectionStatus, the handle, both histories, the reconnect *)
(* counter, the pending timer and intentionalClose; it also forwards      *)
(* nothing and registers or removes no listener.                          *)
ClientState ==
    <<connectionStatus, socket, sentMessages, receivedMessages, reconnectAttempts,
      reconnectTimeoutId, timers, intentionalClose>>

C12_Untouched == UNCHANGED <<ClientState, readyState, wire, listeners>>

C12_FailedSend ==
    \/ C12_Untouched
    \/ sendMessageError # NoError => \A m \in Messages : ~sendMessage(m)

C12_FailedListenerCall ==
    \/ C12_Untouched
    \/ /\ addEventListenerError # NoError
          => \A event \in Kinds, callback \in Callbacks : ~addEventListener(event, callback)
       /\ removeEventListenerError # NoError
          => \A event \in Kinds, callback \in Callbacks : ~removeEventListener(event, callback)

C12_FailedCallsChangeNothing == [][C12_FailedSend /\ C12_FailedListenerCall]_vars

(* the connection was lost after a send, a reconnect is pending, and      *)
(* sendMessage fails in this state                                        *)
C12_Witness ==
    /\ phase = "live"
    /\ socket # 0
    /\ sendMessageError.kind = "InvalidState"
    /\ Len(sentMessages) >= 1
    /\ reconnectAttempts >= 1
    /\ PendingTimers # {}


(* C13: with maxMessageHistory = C > 0, sentMessages and receivedMessages *)
(* hold at most C entries in every reachable state.                       *)
C13_HistoryBounded ==
    maxMessageHistory > 0
    => /\ Len(sentMessages) <= maxMessageHistory
       /\ Len(receivedMessages) <= maxMessageHistory

(* more payloads were sent than the history holds *)
C13_Witness ==
    /\ maxMessageHistory = MaxCap
    /\ sendsSinceClear > maxMessageHistory
    /\ Len(sentMessages) = maxMessageHistory

(* number of entries a history holds after n records since it was emptied *)
Kept(n) == IF maxMessageHistory > 0 /\ n > maxMessageHistory THEN maxMessageHistory ELSE n

C15_NewestReceivedFirst ==
    /\ Len(receivedMessages) = Kept(arrivalsSinceClear)
    /\ \A i \in 1..Len(receivedMessages) :
          receivedMessages[i].message = calls.onMessage - i + 1

(* two message events arrived and both are kept, the later one first *)
C15_Witness ==
    /\ arrivalsSinceClear = 2
    /\ Len(receivedMessages) = 2
    /\ receivedMessages[1].message = 2
    /\ receivedMessages[2].message = 1

(* C16: with maxMessageHistory = 0 nothing is evicted: after N successful *)
(* sends since the last clear sentMessages has exactly N entries, after N *)
(* message events receivedMessages has exactly N entries.                 *)
C16_Unbounded ==
    maxMessageHistory = 0
    => /\ Len(sentMessages) = sendsSinceClear
       /\ Len(receivedMessages) = arrivalsSinceClear

(* as many sends as one run has, all kept *)
C16_Witness ==
    /\ phase = "live"
    /\ maxMessageHistory = 0
    /\ sendsSinceClear = MaxTraffic
    /\ Len(sentMessages) = MaxTraffic


(* C17: in the state removeSocket returns in, whatever state it was       *)
(* called in, the handle is undefined, connectionStatus is CLOSED, both   *)
(* histories are empty, reconnectAttempts is 0 and no reconnect timer is  *)
(* pending.                                                               *)
C17_Released ==
    /\ socket = 0
    /\ connectionStatus = CLOSED
    /\ sentMessages = <<>>
    /\ receivedMessages = <<>>
    /\ reconnectAttempts = 0
    /\ reconnectTimeoutId = 0
    /\ PendingTimers = {}

C17_AfterRemoveSocket == [][removeSocket => C17_Released']_vars

(* removeSocket was called with a payload sent and a reconnect pending:   *)
(* the timer is cleared and the history is empty                          *)
C17_Witness ==
    /\ removed
    /\ C17_Released
    /\ Len(wire) >= 1
    /\ \E i \in 1..Len(timers) : timers[i].st = "cleared"

(* C18: removeSocket is idempotent: a call made after an earlier call     *)
(* finds no handle, so it calls close on no transport, and it leaves the  *)
(* state as it found it.                                                  *)
C18_RemoveSocketIdempotent ==
    /\ [](removed => socket = 0)
    /\ [][(removed /\ removeSocket)
            => UNCHANGED <<phase, config, ClientState, readyState, wire, now, calls,
                           removed, scheduled, listeners, since>>]_vars

(* after removeSocket, with the released transport still closing *)
C18_Witness ==
    /\ removed
    /\ socket = 0
    /\ \E t \in 1..Len(readyState) : readyState[t] = CLOSING


(* C19: addEventListener(event, callback) fails with the not-connected    *)
(* error whenever the client holds no handle, and then registers the      *)
(* callback on no transport; with a handle, in any connection state, it   *)
(* succeeds and the callback is a listener of the current transport for   *)
(* that event, the listeners of the other transports staying as they are. *)
C19_Error ==
    phase = "live"
    => IF socket = 0
         THEN addEventListenerError = [kind |-> "NotConnected", named |-> "CLOSED"]
         ELSE addEventListenerError = NoError

C19_Registers ==
    \A r \in Registrations :
        addEventListener(r[1], r[2])
        => IF socket = 0
             THEN listeners' = listeners
             ELSE /\ r[2] \in Listening(socket, r[1])'
                  /\ \A t \in 1..Len(listeners) : t # socket => listeners'[t] = listeners[t]

C19_AddEventListener == []C19_Error /\ [][C19_Registers]_vars

(* a listener registered while the first transport is still connecting *)
C19_Witness ==
    /\ phase = "live"
    /\ socket # 0
    /\ calls.onOpen = 0
    /\ connectionStatus = CONNECTING
    /\ Listening(socket, "message") # {}

(* C20: removeEventListener called while the client holds no handle       *)
(* throws the not-connected error.                                        *)
C20_RemoveWithoutHandle ==
    (phase = "live" /\ socket = 0)
    => removeEventListenerError = [kind |-> "NotConnected", named |-> "CLOSED"]

(* removeSocket was called on a client that had a listener registered *)
C20_Witness ==
    /\ phase = "live"
    /\ removed
    /\ socket = 0
    /\ \E t \in 1..Len(listeners) : Listening(t, "message") # {}
    /\ removeEventListenerError.kind = "NotConnected"


(* C21: with a handle held, removeEventListener(event, callback) raises   *)
(* no error and removes that registration only: the other listeners of    *)
(* the event type keep their places, the listeners of the other types and *)
(* of the other transports are untouched, so later events still invoke    *)
(* them; removing a callback that is not registered changes nothing.      *)
C21_Removes ==
    socket # 0 =>
        \A r \in Registrations :
            removeEventListener(r[1], r[2])
            => /\ UNCHANGED <<ClientState, readyState, wire>>
               /\ IF r[2] \notin Listening(socket, r[1])
                    THEN listeners' = listeners
                    ELSE /\ r[2] \notin Listening(socket, r[1])'
                         /\ \A c \in Callbacks \ {r[2]} :
                               c \in Listening(socket, r[1]) <=> c \in Listening(socket, r[1])'
                         /\ \A k \in Kinds \ {r[1]} :
                               listeners'[socket][k] = listeners[socket][k]
                         /\ \A t \in 1..Len(listeners) :
                               t # socket => listeners'[t] = listeners[t]

C21_RemoveEventListener ==
    /\ []((phase = "live" /\ socket # 0) => removeEventListenerError = NoError)
    /\ [][C21_Removes]_vars

(* of two close listeners one is left, and the close event invoked it *)
C21_Witness ==
    /\ socket # 0
    /\ listeners[socket]["close"] = <<"cb2">>
    /\ heard = <<"cb2">>
    /\ calls.onClose = 1


(* C22: the listeners of an event type are invoked once each, in the      *)
(* order of their registration, by every event of that type, and by no    *)
(* event of another type: a new listener goes to the end of the list of   *)
(* its type, no list holds a callback twice, and every event invokes the  *)
(* list of its own type as it stands.                                     *)
C22_NoDuplicate ==
    \A t \in 1..Len(listeners) : \A event \in Kinds :
        \A i, j \in 1..Len(listeners[t][event]) :
            listeners[t][event][i] = listeners[t][event][j] => i = j

C22_Appends ==
    socket # 0 =>
        \A r \in Registrations :
            (r[2] \notin Listening(socket, r[1]) /\ addEventListener(r[1], r[2]))
            => /\ listeners'[socket][r[1]] = Append(listeners[socket][r[1]], r[2])
               /\ \A k \in Kinds \ {r[1]} : listeners'[socket][k] = listeners[socket][k]

C22_Invokes ==
    \A t \in 1..Len(readyState) :
        /\ OpenEvent(t) => heard' = listeners[t]["open"]
        /\ CloseEvent(t) => heard' = listeners[t]["close"]
        /\ ErrorEvent(t) => heard' = listeners[t]["error"]
        /\ MessageEvent(t) => heard' = listeners[t]["message"]

C22_RegistrationOrder == []C22_NoDuplicate /\ [][C22_Appends /\ C22_Invokes]_vars

(* two close listeners, the second callback registered first, and the     *)
(* close event invoked both in that order                                 *)
C22_Witness ==
    /\ socket # 0
    /\ listeners[socket]["close"] = <<"cb2", "cb1">>
    /\ heard = <<"cb2", "cb1">>


(* C23: callers' listeners are run in addition to the client's own        *)
(* handling: every open, close, error and message event runs the client's *)
(* handler once (status update, history record, reconnect evaluation),    *)
(* invokes the matching constructor callback once and invokes every       *)
(* listener registered for its type on the transport.                     *)
C23_Handled ==
    \A t \in 1..Len(readyState) :
        /\ OpenEvent(t)
           => /\ connectionStatus' = OPEN
              /\ reconnectAttempts' = 0
              /\ calls' = [calls EXCEPT !.onOpen = @ + 1]
              /\ heard' = listeners[t]["open"]
        /\ CloseEvent(t)
           => /\ connectionStatus' = CLOSED
              /\ calls' = [calls EXCEPT !.onClose = @ + 1]
              /\ attemptReconnect
              /\ heard' = listeners[t]["close"]
        /\ ErrorEvent(t)
           => /\ calls' = [calls EXCEPT !.onError = @ + 1]
              /\ heard' = listeners[t]["error"]
        /\ MessageEvent(t)
           => /\ t = socket
              /\ Len(receivedMessages') >= 1
              /\ receivedMessages'[1] = [message |-> calls.onMessage + 1]
              /\ calls' = [calls EXCEPT !.onMessage = @ + 1]
              /\ heard' = listeners[t]["message"]

C23_ListenersAndHandlers == [][C23_Handled]_vars

(* a message event with a message listener registered: recorded, passed   *)
(* to onMessage and to the listener                                       *)
C23_Witness ==
    /\ socket # 0
    /\ heard = <<"cb1">>
    /\ listeners[socket]["message"] = <<"cb1">>
    /\ calls.onMessage = 1
    /\ Len(receivedMessages) = 1


(* C24: an error event of a transport is passed to onError and changes    *)
(* nothing else: connectionStatus, the handle, reconnectAttempts, the     *)
(* reconnect timer, both histories and every transport stay as they are,  *)
(* and no reconnect is scheduled.                                         *)
C24_ErrorFrame ==
    \A t \in 1..Len(readyState) :
        ErrorEvent(t)
        => /\ calls' = [calls EXCEPT !.onError = @ + 1]
           /\ UNCHANGED <<ClientState, readyState, wire, listeners, scheduled>>

C24_ErrorOnly == [][C24_ErrorFrame]_vars

(* an error event on the open connection of a reconnecting client: the   *)
(* connection stays open and no timer was set                             *)
C24_Witness ==
    /\ reconnectOptions.enabled
    /\ reconnectOptions.maxAttempts >= 1
    /\ calls.onError >= 1
    /\ calls.onClose = 0
    /\ connectionStatus = OPEN
    /\ socket # 0
    /\ readyState[socket] = OPEN
    /\ timers = <<>>


(* C25: connectionStatus is CONNECTING in the state the constructor       *)
(* returns in and in the state every reconnect creates its transport in,  *)
(* the new transport being the current one; the open event of that        *)
(* transport finds it CONNECTING and makes it OPEN.                       *)
C25_Connecting ==
    /\ \A a \in ConstructorArgs :
          (phase = "new" /\ phase' = "live" /\ Constructor(a[1], a[2], a[3]))
          => /\ connectionStatus' = CONNECTING
             /\ readyState'[socket'] = CONNECTING
    /\ \A id \in 1..Len(timers) :
          TimerFire(id)
          => /\ connectionStatus' = CONNECTING
             /\ socket' = Len(readyState) + 1
             /\ readyState'[socket'] = CONNECTING
    /\ \A t \in 1..Len(readyState) :
          OpenEvent(t)
          => /\ t = socket
             /\ connectionStatus = CONNECTING
             /\ connectionStatus' = OPEN

C25_StatusOfNewTransport == [][C25_Connecting]_vars

(* the second transport, created by a reconnect, has opened *)
C25_Witness ==
    /\ Len(readyState) = 2
    /\ socket = 2
    /\ connectionStatus = OPEN
    /\ readyState[2] = OPEN
    /\ calls.onOpen = 1


(* C26 as stated: connectionStatus = OPEN implies that the current        *)
(* transport's readyState is OPEN.                                        *)
C26_OpenMeansTransportOpen ==
    (phase = "live" /\ connectionStatus = OPEN)
    => (socket # 0 /\ readyState[socket] = OPEN)

(* C26 as amended: connectionStatus reflects the last lifecycle event the *)
(* client handled: it is CONNECTING exactly while the current transport   *)
(* is connecting, OPEN only after the open event of the current transport *)
(* and before its close event (the transport is OPEN or already CLOSING), *)
(* CLOSED only after the close event of the current transport or after    *)
(* removeSocket; while it is OPEN and the transport is CLOSING,           *)
(* sendMessage fails with the invalid-state error, which names OPEN.      *)
C26_StatusFollowsEvents ==
    phase = "live"
    => /\ connectionStatus \in {CONNECTING, OPEN, CLOSED}
       /\ socket = 0 => removed
       /\ connectionStatus = CONNECTING
             => (socket # 0 /\ readyState[socket] = CONNECTING)
       /\ connectionStatus = OPEN
             => (socket # 0 /\ readyState[socket] \in {OPEN, CLOSING} /\ calls.onOpen >= 1)
       /\ connectionStatus = CLOSED
             => (socket = 0 \/ (readyState[socket] = CLOSED /\ calls.onClose >= 1))
       /\ (connectionStatus = OPEN /\ readyState[socket] = CLOSING)
             => sendMessageError = [kind |-> "InvalidState", named |-> "OPEN"]

(* the closing handshake of the open connection has started, its close    *)
(* event is still to come                                                 *)
C26_Witness ==
    /\ phase = "live"
    /\ connectionStatus = OPEN
    /\ socket # 0
    /\ readyState[socket] = CLOSING
    /\ sendMessageError.kind = "InvalidState"


(* C27: createSocket running with a handle held does not start the        *)
(* reconnect path.  The transport it supersedes is already CLOSED, so the *)
(* close() call produces no close event; the timer step itself leaves     *)
(* reconnectAttempts alone and sets no timer; and a close event of a      *)
(* transport that is not the current one never counts an attempt or sets  *)
(* a timer.                                                               *)
C27_Supersede ==
    /\ \A id \in 1..Len(timers) :
          TimerFire(id)
          => /\ socket # 0
             /\ readyState[socket] = CLOSED
             /\ readyState'[socket] = CLOSED
             /\ reconnectAttempts' = reconnectAttempts
             /\ reconnectTimeoutId' = reconnectTimeoutId
             /\ PendingTimers' = {}
    /\ \A t \in 1..Len(readyState) :
          (CloseEvent(t) /\ t # socket)
          => UNCHANGED <<reconnectAttempts, timers, reconnectTimeoutId>>

C27_SupersedeIsNoFailure == [][C27_Supersede]_vars

(* a reconnect replaced the first transport: one attempt counted, by the  *)
(* close event that set the timer, and none since                         *)
C27_Witness ==
    /\ Len(readyState) = 2
    /\ socket = 2
    /\ readyState[1] = CLOSED
    /\ readyState[2] = CONNECTING
    /\ reconnectAttempts = 1
    /\ calls.onClose = 1
    /\ PendingTimers = {}


(* C28: at most one transport of a client is not fully closed at any      *)
(* time, and while the client holds a transport every other transport it  *)
(* created is CLOSED; in particular this is so in the state createSocket  *)
(* creates a transport in.                                                *)
Alive == {t \in 1..Len(readyState) : readyState[t] # CLOSED}

C28_OneAlive ==
    /\ Cardinality(Alive) <= 1
    /\ socket # 0 => \A t \in 1..Len(readyState) : t # socket => readyState[t] = CLOSED

(* the third transport is connecting, the two before it are closed *)
C28_Witness ==
    /\ Len(readyState) = 3
    /\ socket = 3
    /\ Alive = {3}
    /\ readyState[3] = CONNECTING

(* C29: reconnect attempts are sequential: at most one reconnect timer is *)
(* pending at any time, and while one is pending the client holds a       *)
(* transport that is fully closed, so a timer is never set while the      *)
(* current transport is CONNECTING or OPEN.                               *)
C29_TimerMeansClosed ==
    /\ Cardinality(PendingTimers) <= 1
    /\ PendingTimers # {}
          => /\ socket # 0
             /\ readyState[socket] = CLOSED
             /\ connectionStatus = CLOSED
             /\ PendingTimers = {reconnectTimeoutId}

C29_Scheduling ==
    \A t \in 1..Len(readyState) :
        (CloseEvent(t) /\ Len(timers') > Len(timers))
        => (t = socket /\ PendingTimers = {} /\ readyState'[socket] = CLOSED)

C29_Sequential == []C29_TimerMeansClosed /\ [][C29_Scheduling]_vars

(* the second reconnect timer is running down, the first has fired *)
C29_Witness ==
    /\ Len(timers) = 2
    /\ timers[1].st = "fired"
    /\ PendingTimers = {2}
    /\ timers[2].rem > 0
    /\ readyState[socket] = CLOSED

(* C30: in every state in which connectionStatus is OPEN no reconnect     *)
(* timer is pending, and the open event leaves none pending, so no stale  *)
(* timer replaces an open connection.                                     *)
C30_OpenMeansNoTimer ==
    /\ connectionStatus = OPEN => PendingTimers = {}
    /\ \A t \in 1..Len(readyState) : readyState[t] = OPEN => PendingTimers = {}

C30_OpenClears == \A t \in 1..Len(readyState) : OpenEvent(t) => PendingTimers' = {}

C30_NoStaleTimer == []C30_OpenMeansNoTimer /\ [][C30_OpenClears]_vars

(* a connection opened by a reconnect: its timer has fired, none pends *)
C30_Witness ==
    /\ connectionStatus = OPEN
    /\ reconnectTimeoutId # 0
    /\ timers[reconnectTimeoutId].st = "fired"
    /\ PendingTimers = {}
    /\ reconnectAttempts = 0


(* C31: the close handler sets connectionStatus to CLOSED before it       *)
(* invokes onClose, so every onClose call finds CLOSED; the reconnect     *)
(* policy comes last and does nothing after an intentional close: it      *)
(* sets a timer exactly when the close is not intentional, reconnection   *)
(* is enabled and the budget is not used up.                              *)
C31_Observed == calls.onClose > 0 => onCloseSaw = CLOSED

C31_Handler ==
    \A t \in 1..Len(readyState) :
        CloseEvent(t)
        => /\ connectionStatus' = CLOSED
           /\ onCloseSaw' = CLOSED
           /\ calls'.onClose = calls.onClose + 1
           /\ intentionalClose
                => UNCHANGED <<reconnectAttempts, timers, reconnectTimeoutId, scheduled>>
           /\ Len(timers') = Len(timers) + 1
                <=> /\ ~intentionalClose
                    /\ reconnectOptions.enabled
                    /\ reconnectAttempts < reconnectOptions.maxAttempts

C31_CloseHandlerOrder == []C31_Observed /\ [][C31_Handler]_vars

(* an open connection was lost: onClose found CLOSED and the policy set  *)
(* a timer                                                                *)
C31_Witness ==
    /\ calls.onOpen = 1
    /\ calls.onClose = 1
    /\ onCloseSaw = CLOSED
    /\ ~intentionalClose
    /\ PendingTimers # {}


(* C32: sendMessage leaves receivedMessages alone and a message event     *)
(* leaves sentMessages alone; clearSentMessages and clearReceivedMessages *)
(* empty their own history and change neither the other history nor      *)
(* connectionStatus, the handle, reconnectAttempts, the reconnect timer   *)
(* or any transport.                                                      *)
C32_Connection ==
    <<connectionStatus, socket, reconnectAttempts, reconnectTimeoutId, timers,
      intentionalClose, readyState, wire>>

C32_Frames ==
    /\ UNCHANGED receivedMessages \/ \A m \in Messages : ~sendMessage(m)
    /\ UNCHANGED sentMessages \/ \A t \in 1..Len(readyState) : ~MessageEvent(t)
    /\ \/ sentMessages' = <<>> /\ UNCHANGED <<receivedMessages, C32_Connection>>
       \/ ~clearSentMessages
    /\ \/ receivedMessages' = <<>> /\ UNCHANGED <<sentMessages, C32_Connection>>
       \/ ~clearReceivedMessages

C32_IndependentHistories == [][C32_Frames]_vars

(* a message was sent and one received on the open connection, and the   *)
(* sent history alone was cleared                                         *)
C32_Witness ==
    /\ socket # 0
    /\ connectionStatus = OPEN
    /\ Len(wire) = 1
    /\ sentMessages = <<>>
    /\ sendsSinceClear = 0
    /\ Len(receivedMessages) = 1
    /\ arrivalsSinceClear = 1


(* C33: SocketProvider stores one SvelteSocket in the context.  With the  *)
(* svelteSocket prop given it stores that instance and constructs         *)
(* nothing, whatever the url prop: the instance and its transports stay   *)
(* as they are.  It constructs a SvelteSocket, and so a transport, only   *)
(* with the svelteSocket prop absent.  With neither prop it throws and    *)
(* sets no context.                                                       *)
C33_Context == context = TheSocket => phase = "live" /\ Len(readyState) >= 1

C33_Mount ==
    context = NoContext =>
    \A u \in UrlProps, s \in BOOLEAN :
        SocketProvider(u, s)
        => /\ s => context' = TheSocket /\ UNCHANGED instance
           /\ Len(readyState') > Len(readyState)
                => /\ ~s
                   /\ context' = TheSocket
                   /\ url' = u.value
                   /\ readyState' = <<CONNECTING>>
           /\ (~s /\ ~Truthy(u))
                => /\ SocketProviderError(u, s) # NoError
                   /\ UNCHANGED <<context, instance>>

C33_Throws ==
    \A u \in UrlProps, s \in BOOLEAN :
        SocketProviderError(u, s) # NoError <=> (~s /\ ~Truthy(u))

C33_OneSocketInContext == [](C33_Context /\ C33_Throws) /\ [][C33_Mount]_vars

(* the provider was given a reconnecting client that had an open         *)
(* connection and a sent message: that client is in the context, with    *)
(* its one transport                                                      *)
C33_Witness ==
    /\ context = TheSocket
    /\ reconnectOptions.enabled
    /\ maxMessageHistory = 0
    /\ Len(readyState) = 1
    /\ connectionStatus = OPEN
    /\ Len(sentMessages) = 1


(* C34: in the listener-tracking version, while the client holds a        *)
(* transport, getEventListeners(event) is the list of callbacks that      *)
(* transport holds for the event type: those added and not removed        *)
(* since, each once; the Map has a key exactly for the event types with   *)
(* a callback; and removeSocket leaves the Map empty.                     *)
C34_Tracked ==
    phase = "live" =>
        /\ socket # 0 => \A event \in Kinds : getEventListeners(event) = listeners[socket][event]
        /\ DOMAIN trackedListeners = {event \in Kinds : getEventListeners(event) # <<>>}
        /\ \A event \in Kinds : \A i, j \in 1..Len(getEventListeners(event)) :
              getEventListeners(event)[i] = getEventListeners(event)[j] => i = j
        /\ socket = 0 => trackedListeners = EmptyMap

C34_Calls ==
    /\ \A r \in Registrations :
          /\ (socket # 0 /\ trackedAddEventListener(r[1], r[2]))
               => /\ \E i \in 1..Len(getEventListeners(r[1])') : getEventListeners(r[1])'[i] = r[2]
                  /\ \A k \in Kinds \ {r[1]} : getEventListeners(k)' = getEventListeners(k)
          /\ trackedRemoveEventListener(r[1], r[2])
               => /\ \A i \in 1..Len(getEventListeners(r[1])') : getEventListeners(r[1])'[i] # r[2]
                  /\ \A k \in Kinds \ {r[1]} : getEventListeners(k)' = getEventListeners(k)
    /\ trackedRemoveSocket => trackedListeners' = EmptyMap

C34_ListenerRegistry == []C34_Tracked /\ [][C34_Calls]_vars

(* on the open connection: close has two callbacks, message one, and the *)
(* other event types have no key                                          *)
C34_Witness ==
    /\ socket # 0
    /\ readyState[socket] = OPEN
    /\ DOMAIN trackedListeners = {"close", "message"}
    /\ getEventListeners("close") = <<"cb2", "cb1">>
    /\ getEventListeners("message") = <<"cb1">>
    /\ getEventListeners("open") = <<>>


Preserved(before, after) ==
    /\ Len(after) >= Len(before)
    /\ SubSeq(after, Len(after) - Len(before) + 1, Len(after)) = before

C36_Reconnecting ==
    \/ UNCHANGED histories
    \/ /\ \A t \in 1..Len(readyState) : ~CloseEvent(t) /\ ~OpenEvent(t)
       /\ \A id \in 1..Len(timers) : ~TimerFire(id)

C36_Losses ==
    /\ \/ Preserved(sentMessages, sentMessages')
       \/ clearSentMessages
       \/ removeSocket
       \/ /\ maxMessageHistory > 0
          /\ Len(sentMessages) = maxMessageHistory
          /\ \E m \in Messages : sendMessage(m)
    /\ \/ Preserved(receivedMessages, receivedMessages')
       \/ clearReceivedMessages
       \/ removeSocket
       \/ /\ maxMessageHistory > 0
          /\ Len(receivedMessages) = maxMessageHistory
          /\ \E t \in 1..Len(readyState) : MessageEvent(t)

C36_HistorySurvivesReconnect == [][C36_Reconnecting /\ C36_Losses]_vars

(* the connection that carried a message each way was lost and the       *)
(* reconnect has created the second transport: both entries are there    *)
C36_Witness ==
    /\ ~removed
    /\ Len(readyState) = 2
    /\ socket = 2
    /\ readyState[2] = CONNECTING
    /\ Len(timers) = 1
    /\ timers[1].st = "fired"
    /\ Len(sentMessages) = 1
    /\ Len(receivedMessages) = 1


(* C37: a listener belongs to the transport that was current when it was  *)
(* added.  The transport a reconnect creates starts without callers'      *)
(* listeners, those of the replaced transport stay behind, and an event   *)
(* of a transport invokes the listeners of that transport only; the       *)
(* constructor callbacks are invoked by the events of every transport.    *)
C37_Replaces ==
    \A id \in 1..Len(timers) :
        Reconnect(id)
        => /\ socket # 0
           /\ socket' = Len(readyState) + 1
           /\ listeners'[socket'] = NoListeners
           /\ stranded' = (listeners[socket] # NoListeners)

C37_Invokes ==
    \A t \in 1..Len(readyState) :
        /\ OpenEvent(t)
             => heard' = listeners[t]["open"] /\ calls'.onOpen = calls.onOpen + 1
        /\ CloseEvent(t)
             => heard' = listeners[t]["close"] /\ calls'.onClose = calls.onClose + 1
        /\ ErrorEvent(t)
             => heard' = listeners[t]["error"] /\ calls'.onError = calls.onError + 1
        /\ MessageEvent(t)
             => heard' = listeners[t]["message"] /\ calls'.onMessage = calls.onMessage + 1

C37_Registers ==
    socket # 0 =>
        \A r \in Registrations :
            addEventListener(r[1], r[2])
            => \A t \in 1..Len(listeners) : t # socket => listeners'[t] = listeners[t]

C37_BoundToTransport == [][C37_Replaces /\ C37_Invokes /\ C37_Registers]_vars

(* a listener was added to the first transport, which closed without     *)
(* opening; the transport of the reconnect opened: onOpen was invoked,    *)
(* no listener was                                                        *)
C37_Witness ==
    /\ stranded
    /\ Len(readyState) = 2
    /\ socket = 2
    /\ readyState[2] = OPEN
    /\ calls.onOpen = 1
    /\ heard = <<>>
    /\ listeners[2] = NoListeners


(* C38: when the onClose callback calls removeSocket() during a close     *)
(* that was not intentional, that close schedules no reconnect: no timer  *)
(* is set, none is pending afterwards and reconnectAttempts is 0.         *)
C38_NoReconnectAfterRemoval ==
    [][\A t \in 1..Len(readyState) :
          (~intentionalClose /\ CloseEventRemoving(t))
          => /\ scheduled' = scheduled
             /\ Len(timers') = Len(timers)
             /\ {i \in 1..Len(timers') : timers'[i].st = "pending"} = {}
             /\ reconnectTimeoutId' = 0
             /\ reconnectAttempts' = 0
             /\ intentionalClose']_vars

(* the first transport was lost and the reconnect ran; the second closed  *)
(* with one attempt of two used, and the callback removed the socket: no  *)
(* second timer, the counter is back at 0                                 *)
C38_Witness ==
    /\ removed
    /\ reconnectOptions.enabled
    /\ reconnectOptions.maxAttempts = 2
    /\ calls.onClose = 2
    /\ Len(timers) = 1
    /\ timers[1].st = "fired"
    /\ readyState = <<CLOSED, CLOSED>>
    /\ socket = 0
    /\ reconnectAttempts = 0
    /\ intentionalClose

====
